---- MODULE Spec2Model ----
\* Model of the INA226 current/power monitor driver (lib/sensors/INA_226.cpp).
\*
\* Units.  The driver computes in float; the model keeps the same quantities
\* as exact integers in fixed units:
\*   max_expected_current   milliamps          shunt_resistance   milliohms
\*   current_lsb            the rational num/den, in milliamps
\*   register LSB constants and measurement results   micro-units (uA, uV, uW)
\*   calibration constant   micro-units (0.00512 = 5120e-6)
\* The I2C transport and the device behind it are the environment: every bus
\* transaction completes with a status (0 = ACK, non-zero = failure), and the
\* device is a register store addressed through a register pointer.
EXTENDS Integers, Sequences, FiniteSets, TLC

VARIABLES
    constructed,              \* the constructor has run
    component_config,         \* the ComponentConfig handed to the constructor
    m_max_expected_current,
    m_current_lsb,
    m_shunt_resistance,
    m_sensor_address,
    m_config_register,
    m_voltage_register,
    m_power_register,
    m_current_register,
    m_calibration_register,
    m_mask_enable_register,
    m_alert_limit_register,
    regs,                     \* device: register address -> 16-bit content
    ptr,                      \* device: register pointer
    op,                       \* the latest member function called
    arg,                      \* the arguments of that call
    bus,                      \* the bus transactions that call issued, in order
    ret,                      \* the value that call returned
    outcome,                  \* how that call completed
    test                      \* the test vector of the single-call harness

members == <<m_max_expected_current, m_current_lsb, m_shunt_resistance,
             m_sensor_address, m_config_register, m_voltage_register,
             m_power_register, m_current_register, m_calibration_register,
             m_mask_enable_register, m_alert_limit_register>>

vars == <<constructed, component_config, members, regs, ptr, op, arg, bus,
          ret, outcome, test>>

-----------------------------------------------------------------------------
\* Bounds of the model.

\* configureSensor sub-fields are drawn from 0..MaxModeField (3-bit fields
\* hold 0..7, so 8 is the first out-of-range value).
MaxModeField == 8

\* reset_registers is drawn from 0..MaxResetFlag.
MaxResetFlag == 1

\* 7-bit device addresses are drawn from 0..MaxAddress7.
MaxAddress7 == 127

\* 16-bit words (register contents, caller words) are drawn from 0..MaxWord.
MaxWord == 65535

-----------------------------------------------------------------------------
\* Integer types and bit operations of the source language.

Pow2(n) == 2 ^ n

Uint16(x) == x % 65536

Shl(x, n) == x * Pow2(n)

Shr(x, n) == x \div Pow2(n)

RECURSIVE BitOr(_, _)
BitOr(a, b) ==
    IF a = 0 THEN b
    ELSE IF b = 0 THEN a
    ELSE (IF a % 2 = 1 \/ b % 2 = 1 THEN 1 ELSE 0) + 2 * BitOr(a \div 2, b \div 2)

RECURSIVE BitAnd(_, _)
BitAnd(a, b) ==
    IF a = 0 \/ b = 0 THEN 0
    ELSE (IF a % 2 = 1 /\ b % 2 = 1 THEN 1 ELSE 0) + 2 * BitAnd(a \div 2, b \div 2)

-----------------------------------------------------------------------------
\* Constants of the driver.

\* 0.00512, in micro-units.
INA_226_CALIBRATION_REGISTER_CONSTANT == 5120

\* 0.001 A per bit, in microamps.
INA_226_CURRENT_REGISTER_LSB == 1000

\* 0.00125 V per bit, in microvolts.
INA_226_VOLTAGE_REGISTER_LSB == 1250

\* 25 times the current LSB, in microwatts.
INA_226_POWER_REGISTER_LSB == 25 * INA_226_CURRENT_REGISTER_LSB

-----------------------------------------------------------------------------
\* The I2C transport and the register store behind it.

RegisterAddresses == 0 .. 7

ACK == 0

BusStatus == {0, 1}

\* i2c_.write(address, data, length): the transaction as seen on the bus.
i2c_write(address, data, length, status) ==
    [kind |-> "write", address |-> address, data |-> SubSeq(data, 1, length),
     length |-> length, repeated |-> FALSE, status |-> status]

\* The register pointer after a write of `length` bytes of `data`.
PointerAfterWrite(p, data, length, status) ==
    IF status = ACK /\ length >= 1 /\ data[1] \in RegisterAddresses
    THEN data[1] ELSE p

\* The register store after a write: a 3-byte write [reg, low, high] stores
\* low + 256*high in the addressed register.
RegistersAfterWrite(r, data, length, status) ==
    IF status = ACK /\ length = 3 /\ data[1] \in RegisterAddresses
    THEN [r EXCEPT ![data[1]] = data[2] + 256 * data[3]]
    ELSE r

\* The bytes the device sends for a read of two bytes: [low, high] of the
\* register the pointer selects.
DeviceAnswer(r, p) == <<r[p] % 256, (r[p] \div 256) % 256>>

\* i2c_.read(address, data, length, repeated): the transaction as seen on the
\* bus; `data` is what the device sent (nothing on a failed transaction).
i2c_read(address, answer, length, repeated, status) ==
    [kind |-> "read", address |-> address,
     data |-> IF status = ACK THEN SubSeq(answer, 1, length) ELSE <<>>,
     length |-> length, repeated |-> repeated, status |-> status]

\* The caller's buffer after the read: filled on success, untouched otherwise.
BufferAfterRead(cmd, answer, length, status) ==
    IF status = ACK
    THEN [i \in 1 .. Len(cmd) |-> IF i <= length THEN answer[i] ELSE cmd[i]]
    ELSE cmd

-----------------------------------------------------------------------------
\* Inputs.

NoModes ==
    [operation_mode |-> 0, shunt_voltage_conversion_setting |-> 0,
     bus_voltage_conversion_setting |-> 0, average_mode_setting |-> 0,
     reset_registers |-> 0]

NoArg == [word |-> 0, configuration_bits |-> NoModes]

\* Every SensorModes value the model hands to configureSensor.
AllModes ==
    [operation_mode : 0 .. MaxModeField,
     shunt_voltage_conversion_setting : 0 .. MaxModeField,
     bus_voltage_conversion_setting : 0 .. MaxModeField,
     average_mode_setting : 0 .. MaxModeField,
     reset_registers : 0 .. MaxResetFlag]

\* max_expected_current values (mA) and shunt_resistance values (milliohm).
Currents == {500, 1000, 2000}

Shunts == {2, 10, 100}

DefaultConfig ==
    [sensor_address |-> 64, max_expected_current |-> 1000, shunt_resistance |-> 2]

NoTest == [kind |-> "none", word |-> 0, configuration_bits |-> NoModes]

-----------------------------------------------------------------------------
\* Construction.

\* The constructor storing the 7-bit address unshifted.
INA_226_unshifted ==
    /\ ~constructed
    /\ constructed' = TRUE
    /\ m_max_expected_current' = component_config.max_expected_current
    /\ m_current_lsb' = [num |-> component_config.max_expected_current,
                         den |-> Pow2(15)]
    /\ m_shunt_resistance' = component_config.shunt_resistance
    /\ m_sensor_address' = component_config.sensor_address
    /\ m_config_register' = 0
    /\ m_voltage_register' = 1
    /\ m_power_register' = 3
    /\ m_current_register' = 4
    /\ m_calibration_register' = 5
    /\ m_mask_enable_register' = 6
    /\ m_alert_limit_register' = 7
    /\ op' = "INA_226"
    /\ arg' = NoArg
    /\ bus' = <<>>
    /\ ret' = 0
    /\ outcome' = "returned"
    /\ UNCHANGED <<component_config, regs, ptr, test>>

INA_226 ==
    /\ ~constructed
    /\ constructed' = TRUE
    /\ m_max_expected_current' = component_config.max_expected_current
    /\ m_current_lsb' = [num |-> component_config.max_expected_current,
                         den |-> Pow2(15)]
    /\ m_shunt_resistance' = component_config.shunt_resistance
    /\ m_sensor_address' = Shl(component_config.sensor_address, 1)
    /\ m_config_register' = 0
    /\ m_voltage_register' = 1
    /\ m_power_register' = 3
    /\ m_current_register' = 4
    /\ m_calibration_register' = 5
    /\ m_mask_enable_register' = 6
    /\ m_alert_limit_register' = 7
    /\ op' = "INA_226"
    /\ arg' = NoArg
    /\ bus' = <<>>
    /\ ret' = 0
    /\ outcome' = "returned"
    /\ UNCHANGED <<component_config, regs, ptr, test>>

-----------------------------------------------------------------------------
\* Read accessors.  wst and rst are the statuses the transport reports for
\* the pointer write and for the two-byte read.

\* The reassembly with the first received byte as the high byte.
Word16_BigEndian(cmd) == Uint16(BitOr(Shl(cmd[1], 8), cmd[2]))

\* (cmd[1] << 8 | cmd[0]) stored in a u_int16_t; cmd is 1-indexed here.
Word16(cmd) == Uint16(BitOr(Shl(cmd[2], 8), cmd[1]))

\* getCurrentData scaling by the calibrated current LSB (max_expected_current
\* / 2^15) instead of the fixed 1 mA per bit.
getCurrentData_calibratedLsb(wst, rst) ==
    LET cmd0 == <<m_current_register, 0>>
        p1 == PointerAfterWrite(ptr, cmd0, 1, wst)
        answer == DeviceAnswer(regs, p1)
        cmd == BufferAfterRead(cmd0, answer, 2, rst)
        current_data == Word16(cmd)
    IN  /\ constructed
        /\ bus' = <<i2c_write(m_sensor_address, cmd0, 1, wst),
                    i2c_read(m_sensor_address, answer, 2, FALSE, rst)>>
        /\ ptr' = p1
        /\ ret' = ((current_data * m_current_lsb.num) \div m_current_lsb.den) * 1000
        /\ op' = "getCurrentData"
        /\ arg' = NoArg
        /\ outcome' = "returned"
        /\ UNCHANGED <<constructed, component_config, members, regs, test>>

getCurrentData(wst, rst) ==
    LET cmd0 == <<m_current_register, 0>>
        p1 == PointerAfterWrite(ptr, cmd0, 1, wst)
        answer == DeviceAnswer(regs, p1)
        cmd == BufferAfterRead(cmd0, answer, 2, rst)
        current_data == Word16(cmd)
    IN  /\ constructed
        /\ bus' = <<i2c_write(m_sensor_address, cmd0, 1, wst),
                    i2c_read(m_sensor_address, answer, 2, FALSE, rst)>>
        /\ ptr' = p1
        /\ ret' = current_data * INA_226_CURRENT_REGISTER_LSB
        /\ op' = "getCurrentData"
        /\ arg' = NoArg
        /\ outcome' = "returned"
        /\ UNCHANGED <<constructed, component_config, members, regs, test>>

getVoltageData(wst, rst) ==
    LET cmd0 == <<m_voltage_register, 0>>
        p1 == PointerAfterWrite(ptr, cmd0, 1, wst)
        answer == DeviceAnswer(regs, p1)
        cmd == BufferAfterRead(cmd0, answer, 2, rst)
        voltage_data == Word16(cmd)
    IN  /\ constructed
        /\ bus' = <<i2c_write(m_sensor_address, cmd0, 1, wst),
                    i2c_read(m_sensor_address, answer, 2, FALSE, rst)>>
        /\ ptr' = p1
        /\ ret' = voltage_data * INA_226_VOLTAGE_REGISTER_LSB
        /\ op' = "getVoltageData"
        /\ arg' = NoArg
        /\ outcome' = "returned"
        /\ UNCHANGED <<constructed, component_config, members, regs, test>>

getPowerData(wst, rst) ==
    LET cmd0 == <<m_power_register, 0>>
        p1 == PointerAfterWrite(ptr, cmd0, 1, wst)
        answer == DeviceAnswer(regs, p1)
        cmd == BufferAfterRead(cmd0, answer, 2, rst)
        power_data == Word16(cmd)
    IN  /\ constructed
        /\ bus' = <<i2c_write(m_sensor_address, cmd0, 1, wst),
                    i2c_read(m_sensor_address, answer, 2, FALSE, rst)>>
        /\ ptr' = p1
        /\ ret' = power_data * INA_226_POWER_REGISTER_LSB
        /\ op' = "getPowerData"
        /\ arg' = NoArg
        /\ outcome' = "returned"
        /\ UNCHANGED <<constructed, component_config, members, regs, test>>

\* getAlertLimit skipping the pointer write when the device pointer already
\* selects the alert-limit register.
getAlertLimit_cached(wst, rst) ==
    LET cmd0 == <<m_alert_limit_register, 0>>
        skip == ptr = m_alert_limit_register
        p1 == IF skip THEN ptr ELSE PointerAfterWrite(ptr, cmd0, 1, wst)
        answer == DeviceAnswer(regs, p1)
        cmd == BufferAfterRead(cmd0, answer, 2, rst)
        alert == Word16(cmd)
    IN  /\ constructed
        /\ bus' = IF skip
                  THEN <<i2c_read(m_sensor_address, answer, 2, FALSE, rst)>>
                  ELSE <<i2c_write(m_sensor_address, cmd0, 1, wst),
                         i2c_read(m_sensor_address, answer, 2, FALSE, rst)>>
        /\ ptr' = p1
        /\ ret' = alert
        /\ op' = "getAlertLimit"
        /\ arg' = NoArg
        /\ outcome' = "returned"
        /\ UNCHANGED <<constructed, component_config, members, regs, test>>

getAlertLimit(wst, rst) ==
    LET cmd0 == <<m_alert_limit_register, 0>>
        p1 == PointerAfterWrite(ptr, cmd0, 1, wst)
        answer == DeviceAnswer(regs, p1)
        cmd == BufferAfterRead(cmd0, answer, 2, rst)
        alert == Word16(cmd)
    IN  /\ constructed
        /\ bus' = <<i2c_write(m_sensor_address, cmd0, 1, wst),
                    i2c_read(m_sensor_address, answer, 2, FALSE, rst)>>
        /\ ptr' = p1
        /\ ret' = alert
        /\ op' = "getAlertLimit"
        /\ arg' = NoArg
        /\ outcome' = "returned"
        /\ UNCHANGED <<constructed, component_config, members, regs, test>>

-----------------------------------------------------------------------------
\* Write operations.  wst is the status the transport reports for the write.

\* cmd[1] = x & 0xFF; cmd[2] = x >> 8 & 0xFF, behind the register address.
LowByte(x) == BitAnd(x, 255)

\* The high byte taken without the shift.
HighByte_noShift(x) == BitAnd(x, 255)

HighByte(x) == BitAnd(Shr(x, 8), 255)

\* The configuration word with the averaging field shifted by 8 instead of 9.
ConfigWord_averageShift8(configuration_bits) ==
    LET d0 == 0
        d1 == Uint16(BitOr(d0, configuration_bits.operation_mode))
        d2 == Uint16(BitOr(d1, Shl(configuration_bits.shunt_voltage_conversion_setting, 3)))
        d3 == Uint16(BitOr(d2, Shl(configuration_bits.bus_voltage_conversion_setting, 6)))
        d4 == Uint16(BitOr(d3, Shl(configuration_bits.average_mode_setting, 8)))
        d5 == Uint16(BitOr(d4, Shl(configuration_bits.reset_registers, 15)))
    IN  d5

\* The 16-bit word configureSensor accumulates in dataByte.
ConfigWord(configuration_bits) ==
    LET d0 == 0
        d1 == Uint16(BitOr(d0, configuration_bits.operation_mode))
        d2 == Uint16(BitOr(d1, Shl(configuration_bits.shunt_voltage_conversion_setting, 3)))
        d3 == Uint16(BitOr(d2, Shl(configuration_bits.bus_voltage_conversion_setting, 6)))
        d4 == Uint16(BitOr(d3, Shl(configuration_bits.average_mode_setting, 9)))
        d5 == Uint16(BitOr(d4, Shl(configuration_bits.reset_registers, 15)))
    IN  d5

configureSensor(configuration_bits, wst) ==
    LET dataByte == ConfigWord(configuration_bits)
        cmd == <<m_config_register, LowByte(dataByte), HighByte(dataByte)>>
    IN  /\ constructed
        /\ bus' = <<i2c_write(m_sensor_address, cmd, 3, wst)>>
        /\ ptr' = PointerAfterWrite(ptr, cmd, 3, wst)
        /\ regs' = RegistersAfterWrite(regs, cmd, 3, wst)
        /\ ret' = 0
        /\ op' = "configureSensor"
        /\ arg' = [word |-> 0, configuration_bits |-> configuration_bits]
        /\ outcome' = "returned"
        /\ UNCHANGED <<constructed, component_config, members, test>>

\* The float-to-integer rules an implementation of `cal & 0xFF` can apply to
\* the float cal: truncation toward zero, or rounding to nearest.
IntegerRules == {"truncate", "nearest"}

\* The calibration value computed from max_expected_current itself, without
\* the division by 2^15.
CalibrationValue_noLsb(current_lsb, shunt_resistance, rule) ==
    LET n == INA_226_CALIBRATION_REGISTER_CONSTANT
        d == current_lsb.num * shunt_resistance
    IN  IF rule = "truncate" THEN n \div d ELSE (2 * n + d) \div (2 * d)

\* cal = INA_226_CALIBRATION_REGISTER_CONSTANT / (m_current_lsb * m_shunt_resistance),
\* reduced to an integer by `rule`.
CalibrationValue(current_lsb, shunt_resistance, rule) ==
    LET n == INA_226_CALIBRATION_REGISTER_CONSTANT * current_lsb.den
        d == current_lsb.num * shunt_resistance
    IN  IF rule = "truncate" THEN n \div d ELSE (2 * n + d) \div (2 * d)

calibrateSensor(rule, wst) ==
    LET cal == CalibrationValue(m_current_lsb, m_shunt_resistance, rule)
        cmd == <<m_calibration_register, LowByte(cal), HighByte(cal)>>
    IN  /\ constructed
        /\ bus' = <<i2c_write(m_sensor_address, cmd, 3, wst)>>
        /\ ptr' = PointerAfterWrite(ptr, cmd, 3, wst)
        /\ regs' = RegistersAfterWrite(regs, cmd, 3, wst)
        /\ ret' = 0
        /\ op' = "calibrateSensor"
        /\ arg' = NoArg
        /\ outcome' = "returned"
        /\ UNCHANGED <<constructed, component_config, members, test>>

\* setMaskEnableRegister returning the status of the bus write.
setMaskEnableRegister_status(bits_to_set, wst) ==
    LET cmd == <<m_mask_enable_register, LowByte(bits_to_set), HighByte(bits_to_set)>>
    IN  /\ constructed
        /\ bus' = <<i2c_write(m_sensor_address, cmd, 3, wst)>>
        /\ ptr' = PointerAfterWrite(ptr, cmd, 3, wst)
        /\ regs' = RegistersAfterWrite(regs, cmd, 3, wst)
        /\ ret' = wst
        /\ op' = "setMaskEnableRegister"
        /\ arg' = [word |-> bits_to_set, configuration_bits |-> NoModes]
        /\ outcome' = "returned"
        /\ UNCHANGED <<constructed, component_config, members, test>>

setMaskEnableRegister(bits_to_set, wst) ==
    LET cmd == <<m_mask_enable_register, LowByte(bits_to_set), HighByte(bits_to_set)>>
    IN  /\ constructed
        /\ bus' = <<i2c_write(m_sensor_address, cmd, 3, wst)>>
        /\ ptr' = PointerAfterWrite(ptr, cmd, 3, wst)
        /\ regs' = RegistersAfterWrite(regs, cmd, 3, wst)
        /\ ret' = 0
        /\ op' = "setMaskEnableRegister"
        /\ arg' = [word |-> bits_to_set, configuration_bits |-> NoModes]
        /\ outcome' = "returned"
        /\ UNCHANGED <<constructed, component_config, members, test>>

\* setAlertLimit addressing the mask/enable register.
setAlertLimit_maskRegister(alert_limit, wst) ==
    LET cmd == <<m_mask_enable_register, LowByte(alert_limit), HighByte(alert_limit)>>
    IN  /\ constructed
        /\ bus' = <<i2c_write(m_sensor_address, cmd, 3, wst)>>
        /\ ptr' = PointerAfterWrite(ptr, cmd, 3, wst)
        /\ regs' = RegistersAfterWrite(regs, cmd, 3, wst)
        /\ ret' = 0
        /\ op' = "setAlertLimit"
        /\ arg' = [word |-> alert_limit, configuration_bits |-> NoModes]
        /\ outcome' = "returned"
        /\ UNCHANGED <<constructed, component_config, members, test>>

setAlertLimit(alert_limit, wst) ==
    LET cmd == <<m_alert_limit_register, LowByte(alert_limit), HighByte(alert_limit)>>
    IN  /\ constructed
        /\ bus' = <<i2c_write(m_sensor_address, cmd, 3, wst)>>
        /\ ptr' = PointerAfterWrite(ptr, cmd, 3, wst)
        /\ regs' = RegistersAfterWrite(regs, cmd, 3, wst)
        /\ ret' = 0
        /\ op' = "setAlertLimit"
        /\ arg' = [word |-> alert_limit, configuration_bits |-> NoModes]
        /\ outcome' = "returned"
        /\ UNCHANGED <<constructed, component_config, members, test>>

-----------------------------------------------------------------------------
\* The driver called in any order, any number of times, against the register
\* store, with the transport free to fail any transaction.

\* Caller words of the sequential specification.
SeqWords == {4660, 13330, 65535}

\* SensorModes values of the sequential specification.
SeqModes ==
    {[NoModes EXCEPT !.operation_mode = 7],
     [operation_mode |-> 5, shunt_voltage_conversion_setting |-> 3,
      bus_voltage_conversion_setting |-> 6, average_mode_setting |-> 2,
      reset_registers |-> 1]}

SeqConfigs ==
    {[sensor_address |-> 64, max_expected_current |-> 1000, shunt_resistance |-> 2],
     [sensor_address |-> 69, max_expected_current |-> 2000, shunt_resistance |-> 10]}

InitCommon ==
    /\ constructed = FALSE
    /\ m_max_expected_current = 0
    /\ m_current_lsb = [num |-> 0, den |-> 1]
    /\ m_shunt_resistance = 0
    /\ m_sensor_address = 0
    /\ m_config_register = 0
    /\ m_voltage_register = 0
    /\ m_power_register = 0
    /\ m_current_register = 0
    /\ m_calibration_register = 0
    /\ m_mask_enable_register = 0
    /\ m_alert_limit_register = 0
    /\ ptr = 0
    /\ op = "none"
    /\ arg = NoArg
    /\ bus = <<>>
    /\ ret = 0
    /\ outcome = "none"

Init ==
    /\ InitCommon
    /\ component_config \in SeqConfigs
    /\ \E v \in {4660, 65535} :
           regs = [r \in RegisterAddresses |-> IF r \in {1, 3, 4} THEN v ELSE 0]
    /\ test = NoTest

Next ==
    \/ INA_226
    \/ \E wst \in BusStatus, rst \in BusStatus : getCurrentData(wst, rst)
    \/ \E wst \in BusStatus, rst \in BusStatus : getVoltageData(wst, rst)
    \/ \E wst \in BusStatus, rst \in BusStatus : getPowerData(wst, rst)
    \/ \E wst \in BusStatus, rst \in BusStatus : getAlertLimit(wst, rst)
    \/ \E m \in SeqModes, wst \in BusStatus : configureSensor(m, wst)
    \/ \E rule \in IntegerRules, wst \in BusStatus : calibrateSensor(rule, wst)
    \/ \E w \in SeqWords, wst \in BusStatus : setMaskEnableRegister(w, wst)
    \/ \E w \in SeqWords, wst \in BusStatus : setAlertLimit(w, wst)

Spec == Init /\ [][Next]_vars

-----------------------------------------------------------------------------
\* The single-call harness: one test vector fixed at the start, the driver
\* constructed from it, and each operation applied once to the fresh driver
\* over a transport that does not fail.  A "word" vector ranges over every
\* 16-bit register content and caller word, a "modes" vector over every
\* SensorModes value, a "config" vector over every construction
\* configuration (and there the operation may follow a calibration).

TestVectors ==
    [kind : {"word"}, word : 0 .. MaxWord, configuration_bits : {NoModes}]
    \cup [kind : {"modes"}, word : {4660}, configuration_bits : AllModes]
    \cup [kind : {"config"}, word : {4660, 65535}, configuration_bits : {NoModes}]

InitFn ==
    /\ InitCommon
    /\ test \in TestVectors
    /\ IF test.kind = "config"
       THEN component_config \in [sensor_address : 0 .. MaxAddress7,
                                  max_expected_current : Currents,
                                  shunt_resistance : Shunts]
       ELSE component_config = DefaultConfig
    /\ regs = [r \in RegisterAddresses |-> test.word % 65536]

Fresh == op = "INA_226" \/ (test.kind = "config" /\ op = "calibrateSensor")

NextFn ==
    \/ INA_226
    \/ Fresh /\ getCurrentData(ACK, ACK)
    \/ Fresh /\ getVoltageData(ACK, ACK)
    \/ Fresh /\ getPowerData(ACK, ACK)
    \/ Fresh /\ getAlertLimit(ACK, ACK)
    \/ Fresh /\ configureSensor(test.configuration_bits, ACK)
    \/ Fresh /\ \E rule \in IntegerRules : calibrateSensor(rule, ACK)
    \/ Fresh /\ setMaskEnableRegister(test.word, ACK)
    \/ Fresh /\ setAlertLimit(test.word, ACK)

SpecFn == InitFn /\ [][NextFn]_vars

-----------------------------------------------------------------------------
\* Every 7-bit address, the driver called in any order over a transport that
\* may fail, with one caller word and one SensorModes value.

InitAddr ==
    /\ InitCommon
    /\ component_config \in [sensor_address : 0 .. MaxAddress7,
                             max_expected_current : {1000},
                             shunt_resistance : {2}]
    /\ regs = [r \in RegisterAddresses |-> 0]
    /\ test = NoTest

NextAddr ==
    \/ INA_226
    \/ \E wst \in BusStatus, rst \in BusStatus : getCurrentData(wst, rst)
    \/ \E wst \in BusStatus, rst \in BusStatus : getVoltageData(wst, rst)
    \/ \E wst \in BusStatus, rst \in BusStatus : getPowerData(wst, rst)
    \/ \E wst \in BusStatus, rst \in BusStatus : getAlertLimit(wst, rst)
    \/ \E wst \in BusStatus : configureSensor([NoModes EXCEPT !.operation_mode = 7], wst)
    \/ \E wst \in BusStatus : calibrateSensor("truncate", wst)
    \/ \E wst \in BusStatus : setMaskEnableRegister(4660, wst)
    \/ \E wst \in BusStatus : setAlertLimit(4660, wst)

SpecAddr == InitAddr /\ [][NextAddr]_vars

-----------------------------------------------------------------------------
\* Vocabulary of the properties.

ReadOps == {"getCurrentData", "getVoltageData", "getPowerData", "getAlertLimit"}

DataOps == {"getCurrentData", "getVoltageData", "getPowerData"}

WriteOps == {"configureSensor", "calibrateSensor", "setMaskEnableRegister",
             "setAlertLimit"}

\* The datasheet register address each operation targets.
RegisterOf(o) ==
    CASE o = "configureSensor" -> 0
      [] o = "getVoltageData" -> 1
      [] o = "getPowerData" -> 3
      [] o = "getCurrentData" -> 4
      [] o = "calibrateSensor" -> 5
      [] o = "setMaskEnableRegister" -> 6
      [] o \in {"getAlertLimit", "setAlertLimit"} -> 7

\* Every transaction of the latest call was acknowledged.
AllAcked == \A i \in DOMAIN bus : bus[i].status = ACK

\* The 16-bit value carried by the two data bytes of a 3-byte write.
Carried(t) == t.data[2] + 256 * t.data[3]

-----------------------------------------------------------------------------
\* C1: every call of a read accessor issues exactly two bus transactions, in
\* order: a write of exactly one byte, the accessor's register address
\* (current 0x04, voltage 0x01, power 0x03, alert limit 0x07), then a read of
\* exactly two bytes with repeated = false - whatever was called before and
\* whatever the transport reported.
C1_ReadProtocol ==
    op \in ReadOps =>
        /\ Len(bus) = 2
        /\ bus[1].kind = "write"
        /\ bus[1].length = 1
        /\ bus[1].data = <<RegisterOf(op)>>
        /\ bus[2].kind = "read"
        /\ bus[2].length = 2
        /\ bus[2].repeated = FALSE

\* A getAlertLimit call made while the device pointer already selected the
\* alert-limit register content written earlier: still both transactions.
C1_Witness ==
    /\ op = "getAlertLimit"
    /\ regs[7] = 13330
    /\ ret = 13330
    /\ Len(bus) = 2
    /\ AllAcked

-----------------------------------------------------------------------------
\* C2: for every pair of bytes (b0, b1) the two-byte read delivers, in that
\* order, the raw value a read accessor reassembles is b0 + 256*b1: what
\* getAlertLimit returns, and what the get*Data accessors scale by their LSB.
\* Bytes [0x34, 0x12] give 0x1234, never 0x3412.
C2_LittleEndianReassembly ==
    (op \in ReadOps /\ AllAcked) =>
        LET b0 == bus[2].data[1]
            b1 == bus[2].data[2]
            raw == b0 + 256 * b1
        IN  /\ op = "getAlertLimit" => ret = raw
            /\ op = "getCurrentData" => ret = 1000 * raw
            /\ op = "getVoltageData" => ret = 1250 * raw
            /\ op = "getPowerData" => ret = 25000 * raw
            /\ (op = "getAlertLimit" /\ b0 = 52 /\ b1 = 18) => (ret = 4660 /\ ret # 13330)

\* getAlertLimit received [0x34, 0x12] and returned 0x1234.
C2_Witness ==
    /\ op = "getAlertLimit"
    /\ AllAcked
    /\ bus[2].data = <<52, 18>>
    /\ ret = 4660

-----------------------------------------------------------------------------
\* C3: for every raw register value v in 0..65535 the device holds in the
\* register an accessor reads, and for every construction configuration,
\* calibrated or not, getCurrentData returns 1000*v microamps, getVoltageData
\* 1250*v microvolts and getPowerData 25000*v microwatts; v is unsigned and
\* nothing wraps around.
C3_Scaling ==
    (op \in DataOps /\ AllAcked /\ regs[RegisterOf(op)] <= 65535) =>
        LET v == regs[RegisterOf(op)]
        IN  /\ op = "getCurrentData" => ret = 1000 * v
            /\ op = "getVoltageData" => ret = 1250 * v
            /\ op = "getPowerData" => ret = 25000 * v
            /\ ret >= 0

\* getCurrentData on a calibrated driver built with a 2 A range, and the
\* register at its largest value.
C3_Witness ==
    /\ op = "getCurrentData"
    /\ test.kind = "config"
    /\ component_config.max_expected_current = 2000
    /\ regs[5] # test.word
    /\ regs[4] = 65535
    /\ ret = 65535000

-----------------------------------------------------------------------------
\* C4: every call of a write operation issues exactly one bus transaction, a
\* write of exactly three bytes [register address, low byte, high byte] with
\* register address 0x00 (configureSensor), 0x05 (calibrateSensor), 0x06
\* (setMaskEnableRegister), 0x07 (setAlertLimit), and no bus read; for
\* setMaskEnableRegister and setAlertLimit the two data bytes are the caller's
\* word mod 256 and div 256, for every word in 0..65535.
C4_WriteProtocol ==
    op \in WriteOps =>
        /\ Len(bus) = 1
        /\ bus[1].kind = "write"
        /\ bus[1].length = 3
        /\ Len(bus[1].data) = 3
        /\ bus[1].data[1] = RegisterOf(op)
        /\ bus[1].data[2] \in 0 .. 255
        /\ bus[1].data[3] \in 0 .. 255
        /\ (op \in {"setMaskEnableRegister", "setAlertLimit"} /\ arg.word <= 65535) =>
               /\ bus[1].data[2] = arg.word % 256
               /\ bus[1].data[3] = arg.word \div 256
               /\ Carried(bus[1]) = arg.word

\* setMaskEnableRegister(0xABCD) put [0x06, 0xCD, 0xAB] on the bus.
C4_Witness ==
    /\ op = "setMaskEnableRegister"
    /\ arg.word = 43981
    /\ bus = <<i2c_write(m_sensor_address, <<6, 205, 171>>, 3, ACK)>>

-----------------------------------------------------------------------------
\* C5: for every SensorModes value with its sub-fields in range (the four
\* settings in 0..7, reset_registers in 0..1) configureSensor transmits to
\* register 0x00, low byte first, the word
\*   operation_mode + 8*shunt + 64*bus + 512*average + 32768*reset;
\* bits 12..14 of the transmitted word are 0 and each sub-field is recovered
\* from it.  {mode=7} gives [0x07, 0x00]; {reset=1} gives [0x00, 0x80].
InRange(cb) ==
    /\ cb.operation_mode \in 0 .. 7
    /\ cb.shunt_voltage_conversion_setting \in 0 .. 7
    /\ cb.bus_voltage_conversion_setting \in 0 .. 7
    /\ cb.average_mode_setting \in 0 .. 7
    /\ cb.reset_registers \in 0 .. 1

C5_ConfigPacking ==
    (op = "configureSensor" /\ InRange(arg.configuration_bits)) =>
        LET cb == arg.configuration_bits
            word == cb.operation_mode
                    + 8 * cb.shunt_voltage_conversion_setting
                    + 64 * cb.bus_voltage_conversion_setting
                    + 512 * cb.average_mode_setting
                    + 32768 * cb.reset_registers
            sent == Carried(bus[1])
        IN  /\ bus[1].data = <<0, word % 256, word \div 256>>
            /\ (sent \div 4096) % 8 = 0
            /\ sent % 8 = cb.operation_mode
            /\ (sent \div 8) % 8 = cb.shunt_voltage_conversion_setting
            /\ (sent \div 64) % 8 = cb.bus_voltage_conversion_setting
            /\ (sent \div 512) % 8 = cb.average_mode_setting
            /\ sent \div 32768 = cb.reset_registers
            /\ cb = [NoModes EXCEPT !.operation_mode = 7] => bus[1].data = <<0, 7, 0>>
            /\ cb = [NoModes EXCEPT !.reset_registers = 1] => bus[1].data = <<0, 0, 128>>

\* configureSensor with every field at its largest in-range value.
C5_Witness ==
    /\ op = "configureSensor"
    /\ arg.configuration_bits =
           [operation_mode |-> 7, shunt_voltage_conversion_setting |-> 7,
            bus_voltage_conversion_setting |-> 7, average_mode_setting |-> 7,
            reset_registers |-> 1]
    /\ bus[1].data = <<0, 255, 143>>

-----------------------------------------------------------------------------
\* C6: against the register store, a getAlertLimit whose two transactions are
\* acknowledged returns the word of the latest acknowledged setAlertLimit:
\* an acknowledged setAlertLimit(x) stores x in the alert-limit register, no
\* other operation changes that register, and getAlertLimit returns its
\* content - directly after the set, or with other operations in between.
C6_Step ==
    /\ (op' = "setAlertLimit" /\ bus'[1].status = ACK /\ arg'.word <= 65535)
           => regs'[7] = arg'.word
    /\ op' # "setAlertLimit" => regs'[7] = regs[7]
    /\ (op' = "getAlertLimit" /\ bus'[1].status = ACK /\ bus'[2].status = ACK)
           => /\ ret' = regs[7]
              /\ (op = "setAlertLimit" /\ bus[1].status = ACK /\ arg.word <= 65535)
                     => ret' = arg.word

C6_RoundTrip == [][C6_Step]_vars

\* getAlertLimit returned 0x3412 after the mask/enable and configuration
\* registers were written with other values.
C6_Witness ==
    /\ op = "getAlertLimit"
    /\ AllAcked
    /\ ret = 13330
    /\ regs[6] = 65535
    /\ regs[0] = 7
    /\ regs[5] # 0

-----------------------------------------------------------------------------
\* C7 as stated: for max_expected_current = 1.0 and shunt_resistance = 0.002
\* the two data bytes calibrateSensor transmits carry 83886.
C7_CarriesLiteral ==
    (/\ op = "calibrateSensor"
     /\ component_config.max_expected_current = 1000
     /\ component_config.shunt_resistance = 2)
        => Carried(bus[1]) = 83886

\* C7, amended: calibrateSensor transmits to register 0x05 the calibration
\* value cal = 0.00512 / (current_lsb x shunt_resistance), current_lsb being
\* max_expected_current / 32768 of the construction configuration, reduced to
\* an integer (truncated or rounded to nearest) and then modulo 65536 by the
\* byte split.  For 1.0 A and 0.002 ohm the integer is 83886 and the two
\* bytes carry 83886 mod 65536 = 18350, bytes [0xAE, 0x47].
C7_CalibrationModulo ==
    op = "calibrateSensor" =>
        LET n == 5120 * 32768
            d == component_config.max_expected_current * component_config.shunt_resistance
            floor == n \div d
        IN  /\ bus[1].data[1] = 5
            /\ \E c \in {floor, floor + 1} :
                   /\ 2 * d * c <= 2 * n + d
                   /\ Carried(bus[1]) = c % 65536
            /\ (component_config.max_expected_current = 1000
                    /\ component_config.shunt_resistance = 2)
                   => /\ floor = 83886
                      /\ Carried(bus[1]) = 18350
                      /\ bus[1].data = <<5, 174, 71>>

\* calibrateSensor on a driver built for 1.0 A and 0.002 ohm.
C7_Witness ==
    /\ op = "calibrateSensor"
    /\ component_config.max_expected_current = 1000
    /\ component_config.shunt_resistance = 2
    /\ Carried(bus[1]) = 18350

-----------------------------------------------------------------------------
\* C8: when the transport reports a failure on the pointer write or on the
\* two-byte read of a get*Data call, the call does not complete as a normal
\* return of a measurement, and the failed transaction is not issued again.
C8_FailurePropagates ==
    (op \in DataOps /\ ~AllAcked) =>
        /\ outcome # "returned"
        /\ Len(bus) = 2

-----------------------------------------------------------------------------
\* C9: configureSensor, calibrateSensor, setMaskEnableRegister and
\* setAlertLimit return status 0 on every call, for every input and whatever
\* status the bus write reported.
C9_AlwaysZero ==
    op \in WriteOps => (ret = 0 /\ outcome = "returned")

\* setMaskEnableRegister returned 0 although its bus write failed.
C9_Witness ==
    /\ op = "setMaskEnableRegister"
    /\ bus[1].status # ACK
    /\ ret = 0

-----------------------------------------------------------------------------
\* C10: for every 7-bit address a in 0..127 given at construction the stored
\* wire address is 2*a (low bit 0, at most 8 bits); construction issues no
\* bus transaction; every bus write and read of every later call is addressed
\* to 2*a; the wire address and the register address map keep their
\* constructed values in every state.
C10_WireAddress ==
    /\ ~constructed => bus = <<>>
    /\ op = "INA_226" => bus = <<>>
    /\ (constructed /\ component_config.sensor_address \in 0 .. 127) =>
           /\ m_sensor_address = 2 * component_config.sensor_address
           /\ m_sensor_address % 2 = 0
           /\ m_sensor_address < 256
           /\ component_config.sensor_address = 64 => m_sensor_address = 128
           /\ \A i \in DOMAIN bus : bus[i].address = 2 * component_config.sensor_address
           /\ <<m_config_register, m_voltage_register, m_power_register,
                m_current_register, m_calibration_register,
                m_mask_enable_register, m_alert_limit_register>>
                  = <<0, 1, 3, 4, 5, 6, 7>>

\* A getVoltageData call of a driver built with 7-bit address 0x40: both
\* transactions addressed to 0x80.
C10_Witness ==
    /\ component_config.sensor_address = 64
    /\ op = "getVoltageData"
    /\ bus[1].address = 128
    /\ bus[2].address = 128

====
